---- MODULE Spec2Model ----
(***************************************************************************)
(* The App component of the fertility front end: file intake with size     *)
(* gating, the sequential OCR -> analyze pipeline, and the result view.    *)
(* Two builds of the component are in the repository: the hardened one     *)
(* (validateAndWarn, phase label, VITE_API_URL check) and the earlier      *)
(* src/App.jsx.  The variable build says which one is running.             *)
(*                                                                         *)
(* One action per event handler or network completion.  A handler runs to  *)
(* completion or to its next await, and React renders before the next      *)
(* event, so a handler's closure sees the state of the step it starts in.  *)
(* dragOver (the drop zone's highlight) and downloadTxt (which changes no   *)
(* state) are left out.  lastOp, alerts and ended record what the last step *)
(* did: its handler, the alert() calls it made, the run it ended.           *)
(***************************************************************************)
EXTENDS Integers, Sequences, FiniteSets, TLC

\* ---- bounds of the model ------------------------------------------------
MaxFiles == 2      \* longest FileList explored
MaxBatch == 2      \* longest picker / drop batch explored
MaxRuns  == 2      \* most pipeline runs the model lets be in flight

\* ---- program constants --------------------------------------------------
HardLimit == 50 * 1024 * 1024
SoftLimit == 20 * 1024 * 1024

Hardened == "hardened"
Early    == "App.jsx"
Builds   == {Hardened, Early}

PhaseOcr      == "Extracting document content (OCR)"
PhaseAnalyze  == "Structuring clinical data using AI"
PhaseGenerate == "Generating standardized consultation note"

MsgConfig      == "Configuration error: missing VITE_API_URL."
MsgNoFiles     == "Please upload at least one PDF file."
MsgNoFilesApp  == "Please upload at least one file"
MsgGeneric     == "We encountered a temporary processing issue. Please try again."
MsgFallbackApp == "Processing error"

\* ---- inputs ---------------------------------------------------------------
\* Files at the two size boundaries and one past the hard limit.
FileUniverse ==
  { [name |-> "A", size |-> SoftLimit],
    [name |-> "B", size |-> HardLimit],
    [name |-> "C", size |-> HardLimit + 1] }

NoFile == [name |-> "", size |-> 0]

RECURSIVE SeqsUpTo(_, _)
SeqsUpTo(S, n) ==
  IF n = 0 THEN { <<>> }
  ELSE LET shorter == SeqsUpTo(S, n - 1)
       IN  shorter \cup { Append(s, x) : s \in { t \in shorter : Len(t) = n - 1 }, x \in S }

Batches == SeqsUpTo(FileUniverse, MaxBatch)

\* What the two endpoints can answer: a 2xx JSON body, a non-2xx status with
\* a body, or a fetch that rejects.
OcrResponses ==
  { [kind |-> "ok", text |-> "foo"] }
    \cup { [kind |-> "http", text |-> "bad scan"] }
    \cup { [kind |-> "reject", text |-> "Failed to fetch"] }

AnalyzeResponses ==
  { [kind |-> "ok", text |-> t] : t \in {"", "Patient summary"} }
    \cup { [kind |-> "http", text |-> "overloaded"] }
    \cup { [kind |-> "reject", text |-> "Failed to fetch"] }

\* ---- state ----------------------------------------------------------------
VARIABLES
  build,       \* which build of App is running
  API_URL,     \* TRUE iff import.meta.env.VITE_API_URL is set
  files,       \* useState([])     the FileList
  processing,  \* useState(false)
  phase,       \* useState("")     (hardened build only; "" in App.jsx)
  report,      \* useState("")
  error,       \* useState("")
  runs,        \* pipeline runs suspended at an await, oldest first
  lastOp,      \* the handler that made the last step
  alerts,      \* the alert() messages the last step showed
  ended        \* the run that ended in the last step, or NoRun

vars == << build, API_URL, files, processing, phase, report, error,
           runs, lastOp, alerts, ended >>

NoRun == [files |-> <<>>, parts |-> <<>>, calls |-> <<>>]

\* ---- pure helpers -----------------------------------------------------------
ExceedsMsg(file) == "\"" \o file.name \o "\" exceeds the 50MB limit."
LargeMsg(file)   == "\"" \o file.name \o "\" is large and may take up to 3 minutes to process."

\* file.size > 50 * 1024 * 1024 and file.size > 20 * 1024 * 1024
TooBig(file) == file.size > HardLimit
LargeInclusive(file) == file.size >= SoftLimit    \* >= written for >
Large(file) == file.size > SoftLimit

\* Index of the first file of list over the hard limit, 0 if there is none.
RECURSIVE FirstTooBigFrom(_, _)
FirstTooBigFrom(list, i) ==
  IF i > Len(list) THEN 0
  ELSE IF TooBig(list[i]) THEN i
  ELSE FirstTooBigFrom(list, i + 1)

FirstTooBig(list) == FirstTooBigFrom(list, 1)

\* The alerts the for loop shows while it walks list: one per file over the
\* soft limit.
RECURSIVE WarningsOf(_)
WarningsOf(list) ==
  IF list = <<>> THEN <<>>
  ELSE (IF Large(Head(list)) THEN << LargeMsg(Head(list)) >> ELSE <<>>)
         \o WarningsOf(Tail(list))

\* validateAndWarn(list): its return value, the alerts it shows, and the
\* message it gives setError ("" when it does not call setError).
validateAndWarn(list) ==
  LET first == FirstTooBig(list)
  IN  [ ok     |-> first = 0,
        alerts |-> WarningsOf(IF first = 0 THEN list ELSE SubSeq(list, 1, first - 1)),
        error  |-> IF first = 0 THEN "" ELSE ExceedsMsg(list[first]) ]

\* `Document: ${file.name}\n\n${text}\n`
Block(file, text) == "Document: " \o file.name \o "\n\n" \o text \o "\n"

\* parts.join("\n\n")
RECURSIVE Join(_)
Join(parts) ==
  IF parts = <<>> THEN ""
  ELSE IF Len(parts) = 1 THEN parts[1]
  ELSE parts[1] \o "\n\n" \o Join(Tail(parts))

\* data?.report ? data.report : JSON.stringify(data, null, 2)
ReportOf(text) == IF text # "" THEN text ELSE "{}"

\* filter((_, i) => i !== index), with index counted from 1
RemoveAt(list, index) ==
  SubSeq(list, 1, index - 1) \o SubSeq(list, index + 1, Len(list))

\* ---- initial state ----------------------------------------------------------
Init ==
  /\ build \in Builds
  /\ API_URL \in BOOLEAN
  /\ files = <<>>
  /\ processing = FALSE
  /\ phase = ""
  /\ report = ""
  /\ error = ""
  /\ runs = <<>>
  /\ lastOp = "init"
  /\ alerts = <<>>
  /\ ended = NoRun

\* The intake view (drop zone, file rows, trigger button) is rendered while
\* report is empty, the results view (download, reset) otherwise.
IntakeView  == report = ""
ResultsView == report # ""

Quiet == /\ alerts' = <<>>
         /\ ended' = NoRun

\* ---- intake -----------------------------------------------------------------
\* IntakePerFile: intake that drops only the oversized files of a batch.
\* Intake: what handleFileSelect and handleDrop of the hardened build leave in
\* files and error, and the alerts they show, when the event carries list.
IntakePerFile(list) ==
  IF list = <<>>
  THEN [files |-> files, error |-> error, alerts |-> <<>>]
  ELSE [files  |-> files \o SelectSeq(list, LAMBDA f : ~TooBig(f)),
        error  |-> validateAndWarn(list).error,
        alerts |-> WarningsOf(SelectSeq(list, LAMBDA f : ~TooBig(f)))]

Intake(list) ==
  IF list = <<>>
  THEN [files |-> files, error |-> error, alerts |-> <<>>]
  ELSE LET valid == validateAndWarn(list)
       IN  IF valid.ok
           THEN [files |-> files \o list, error |-> "", alerts |-> valid.alerts]
           ELSE [files |-> files, error |-> valid.error, alerts |-> valid.alerts]

\* The same for handleFileSelect and handleDrop of App.jsx, which hold the
\* loop themselves.
IntakeApp(list) ==
  IF list = <<>>
  THEN [files |-> files, error |-> error, alerts |-> <<>>]
  ELSE LET first == FirstTooBig(list)
       IN  IF first = 0
           THEN [files |-> files \o list, error |-> "", alerts |-> WarningsOf(list)]
           ELSE [files  |-> files,
                 error  |-> ExceedsMsg(list[first]),
                 alerts |-> WarningsOf(SubSeq(list, 1, first - 1))]

handleFileSelect(list) ==
  /\ build = Hardened
  /\ IntakeView
  /\ LET after == Intake(list)
     IN  /\ Len(after.files) <= MaxFiles
         /\ files' = after.files
         /\ error' = after.error
         /\ alerts' = after.alerts
  /\ lastOp' = "handleFileSelect"
  /\ ended' = NoRun
  /\ UNCHANGED << build, API_URL, processing, phase, report, runs >>

handleDrop(list) ==
  /\ build = Hardened
  /\ IntakeView
  /\ LET after == Intake(list)
     IN  /\ Len(after.files) <= MaxFiles
         /\ files' = after.files
         /\ error' = after.error
         /\ alerts' = after.alerts
  /\ lastOp' = "handleDrop"
  /\ ended' = NoRun
  /\ UNCHANGED << build, API_URL, processing, phase, report, runs >>

handleFileSelectApp(list) ==
  /\ build = Early
  /\ IntakeView
  /\ LET after == IntakeApp(list)
     IN  /\ Len(after.files) <= MaxFiles
         /\ files' = after.files
         /\ error' = after.error
         /\ alerts' = after.alerts
  /\ lastOp' = "handleFileSelect"
  /\ ended' = NoRun
  /\ UNCHANGED << build, API_URL, processing, phase, report, runs >>

handleDropApp(list) ==
  /\ build = Early
  /\ IntakeView
  /\ LET after == IntakeApp(list)
     IN  /\ Len(after.files) <= MaxFiles
         /\ files' = after.files
         /\ error' = after.error
         /\ alerts' = after.alerts
  /\ lastOp' = "handleDrop"
  /\ ended' = NoRun
  /\ UNCHANGED << build, API_URL, processing, phase, report, runs >>

removeFile(index) ==
  /\ IntakeView
  /\ index \in 1..Len(files)
  /\ files' = RemoveAt(files, index)
  /\ lastOp' = "removeFile"
  /\ Quiet
  /\ UNCHANGED << build, API_URL, processing, phase, report, error, runs >>

\* ---- the pipeline runner ----------------------------------------------------
Last(s) == s[Len(s)]

\* disabled={processing || files.length === 0} on the trigger button
TriggerDisabledNoProcessing == Len(files) = 0    \* without `processing ||`
TriggerDisabled == processing \/ Len(files) = 0
TriggerDisabledApp == processing \/ Len(files) = 0

\* if (!API_URL)
MissingConfigNever == FALSE    \* the check left out
MissingConfig == ~API_URL

\* The list the for loop of a run walks: the files of the closure run was
\* created in, that is the FileList of the step that triggered it.
\* (LoopFilesLive: the loop reading the current FileList instead.)
LoopFilesLive(r) == files
LoopFiles(r) == r.files

\* The loop condition of `for (const f of files)` after Len(r.parts) files.
MoreFilesFirstOnly(r) == Len(r.parts) < 1    \* a loop that stops after one file
MoreFiles(r) == Len(r.parts) < Len(LoopFiles(r))

\* The fetch a run makes next: ocrFile(f) for the next file of the loop, or
\* analyzeText(parts.join("\n\n")) when the loop is over.
NextCall(r) ==
  IF MoreFiles(r)
  THEN [kind |-> "ocr", file |-> LoopFiles(r)[Len(r.parts) + 1], text |-> "",
        status |-> "pending"]
  ELSE [kind |-> "analyze", file |-> NoFile, text |-> Join(r.parts),
        status |-> "pending"]

Issue(r) == [r EXCEPT !.calls = Append(@, NextCall(r))]

Pending(r, kind) ==
  /\ r.calls # <<>>
  /\ Last(r.calls).kind = kind
  /\ Last(r.calls).status = "pending"

\* The run with the answer to its pending fetch recorded.
Answered(r, resp) == [r EXCEPT !.calls[Len(r.calls)].status = resp.kind]

\* fetch rejected, or if (!res.ok) throw new Error(...)
ThrowsNever(resp) == FALSE    \* res.ok never looked at
Throws(resp) == resp.kind # "ok"

\* The message of the Error that ocrFile / analyzeText throws.
ocrFileError(resp) ==
  IF resp.kind = "http" THEN "OCR error (500): " \o resp.text ELSE resp.text
analyzeTextError(resp) ==
  IF resp.kind = "http" THEN "Analyze error (500): " \o resp.text ELSE resp.text
ocrFileErrorApp(resp) ==
  IF resp.kind = "http" THEN "OCR erro (500): " \o resp.text ELSE resp.text
analyzeTextErrorApp(resp) ==
  IF resp.kind = "http" THEN "Analyze erro (500): " \o resp.text ELSE resp.text

\* catch (e): what setError is given.
CatchMessage(message) == MsgGeneric
CatchMessageApp(message) == IF message # "" THEN message ELSE MsgFallbackApp

\* finally { setProcessing(false); setPhase(""); }
FinallyKeepsProcessing == processing' = processing /\ phase' = ""    \* setProcessing(false) lost
Finally == processing' = FALSE /\ phase' = ""
FinallyApp == processing' = FALSE /\ phase' = phase

\* ocrFile's return value pushed on parts, then the loop goes on.
AfterOcr(r, resp) ==
  Issue([Answered(r, resp) EXCEPT
           !.parts = Append(@, Block(Last(r.calls).file, resp.text))])

NewRun == Issue([files |-> files, parts |-> <<>>, calls |-> <<>>])

run ==
  /\ build = Hardened
  /\ IntakeView
  /\ ~TriggerDisabled
  /\ Len(runs) < MaxRuns
  /\ IF MissingConfig
     THEN /\ error' = MsgConfig
          /\ UNCHANGED << processing, report, phase, runs >>
     ELSE IF Len(files) = 0
     THEN /\ error' = MsgNoFiles
          /\ UNCHANGED << processing, report, phase, runs >>
     ELSE /\ processing' = TRUE
          /\ error' = ""
          /\ report' = ""
          /\ phase' = PhaseOcr
          /\ runs' = Append(runs, NewRun)
  /\ lastOp' = "run"
  /\ Quiet
  /\ UNCHANGED << build, API_URL, files >>

runApp ==
  /\ build = Early
  /\ IntakeView
  /\ ~TriggerDisabledApp
  /\ Len(runs) < MaxRuns
  /\ IF Len(files) = 0
     THEN /\ error' = MsgNoFilesApp
          /\ UNCHANGED << processing, report, phase, runs >>
     ELSE /\ processing' = TRUE
          /\ error' = ""
          /\ report' = ""
          /\ runs' = Append(runs, NewRun)
          /\ UNCHANGED phase
  /\ lastOp' = "run"
  /\ Quiet
  /\ UNCHANGED << build, API_URL, files >>

\* run resumes at `await ocrFile(f)`.
runAfterOcr(i, resp) ==
  /\ build = Hardened
  /\ i \in 1..Len(runs)
  /\ Pending(runs[i], "ocr")
  /\ IF ~Throws(resp)
     THEN /\ runs' = [runs EXCEPT ![i] = AfterOcr(runs[i], resp)]
          /\ phase' = IF Last(AfterOcr(runs[i], resp).calls).kind = "analyze"
                      THEN PhaseAnalyze ELSE phase
          /\ ended' = NoRun
          /\ UNCHANGED << processing, error, report >>
     ELSE /\ error' = CatchMessage(ocrFileError(resp))
          /\ Finally
          /\ runs' = RemoveAt(runs, i)
          /\ ended' = Answered(runs[i], resp)
          /\ UNCHANGED report
  /\ lastOp' = "runAfterOcr"
  /\ alerts' = <<>>
  /\ UNCHANGED << build, API_URL, files >>

runAfterOcrApp(i, resp) ==
  /\ build = Early
  /\ i \in 1..Len(runs)
  /\ Pending(runs[i], "ocr")
  /\ IF ~Throws(resp)
     THEN /\ runs' = [runs EXCEPT ![i] = AfterOcr(runs[i], resp)]
          /\ ended' = NoRun
          /\ UNCHANGED << processing, error, report, phase >>
     ELSE /\ error' = CatchMessageApp(ocrFileErrorApp(resp))
          /\ FinallyApp
          /\ runs' = RemoveAt(runs, i)
          /\ ended' = Answered(runs[i], resp)
          /\ UNCHANGED report
  /\ lastOp' = "runAfterOcr"
  /\ alerts' = <<>>
  /\ UNCHANGED << build, API_URL, files >>

\* run resumes at `await analyzeText(combined)`.
runAfterAnalyze(i, resp) ==
  /\ build = Hardened
  /\ i \in 1..Len(runs)
  /\ Pending(runs[i], "analyze")
  /\ IF ~Throws(resp)
     THEN /\ report' = ReportOf(resp.text)
          /\ UNCHANGED error
     ELSE /\ error' = CatchMessage(analyzeTextError(resp))
          /\ UNCHANGED report
  /\ Finally
  /\ runs' = RemoveAt(runs, i)
  /\ ended' = Answered(runs[i], resp)
  /\ lastOp' = "runAfterAnalyze"
  /\ alerts' = <<>>
  /\ UNCHANGED << build, API_URL, files >>

runAfterAnalyzeApp(i, resp) ==
  /\ build = Early
  /\ i \in 1..Len(runs)
  /\ Pending(runs[i], "analyze")
  /\ IF ~Throws(resp)
     THEN /\ report' = ReportOf(resp.text)
          /\ UNCHANGED error
     ELSE /\ error' = CatchMessageApp(analyzeTextErrorApp(resp))
          /\ UNCHANGED report
  /\ FinallyApp
  /\ runs' = RemoveAt(runs, i)
  /\ ended' = Answered(runs[i], resp)
  /\ lastOp' = "runAfterAnalyze"
  /\ alerts' = <<>>
  /\ UNCHANGED << build, API_URL, files >>

\* ---- the result view ----------------------------------------------------------
\* resetKeepsError: reset without setError("").
resetKeepsError ==
  /\ build = Hardened
  /\ ResultsView
  /\ files' = <<>>
  /\ report' = ""
  /\ phase' = ""
  /\ lastOp' = "reset"
  /\ Quiet
  /\ UNCHANGED << build, API_URL, processing, runs, error >>

reset ==
  /\ build = Hardened
  /\ ResultsView
  /\ files' = <<>>
  /\ report' = ""
  /\ error' = ""
  /\ phase' = ""
  /\ lastOp' = "reset"
  /\ Quiet
  /\ UNCHANGED << build, API_URL, processing, runs >>

resetApp ==
  /\ build = Early
  /\ ResultsView
  /\ files' = <<>>
  /\ report' = ""
  /\ error' = ""
  /\ lastOp' = "reset"
  /\ Quiet
  /\ UNCHANGED << build, API_URL, processing, phase, runs >>

\* ---- the system -----------------------------------------------------------------
Network ==
  \/ \E i \in 1..MaxRuns, resp \in OcrResponses : runAfterOcr(i, resp)
  \/ \E i \in 1..MaxRuns, resp \in OcrResponses : runAfterOcrApp(i, resp)
  \/ \E i \in 1..MaxRuns, resp \in AnalyzeResponses : runAfterAnalyze(i, resp)
  \/ \E i \in 1..MaxRuns, resp \in AnalyzeResponses : runAfterAnalyzeApp(i, resp)

Next ==
  \/ \E list \in Batches : handleFileSelect(list)
  \/ \E list \in Batches : handleDrop(list)
  \/ \E list \in Batches : handleFileSelectApp(list)
  \/ \E list \in Batches : handleDropApp(list)
  \/ \E index \in 1..MaxFiles + 1 : removeFile(index)
  \/ run
  \/ runApp
  \/ \E i \in 1..MaxRuns, resp \in OcrResponses : runAfterOcr(i, resp)
  \/ \E i \in 1..MaxRuns, resp \in OcrResponses : runAfterOcrApp(i, resp)
  \/ \E i \in 1..MaxRuns, resp \in AnalyzeResponses : runAfterAnalyze(i, resp)
  \/ \E i \in 1..MaxRuns, resp \in AnalyzeResponses : runAfterAnalyzeApp(i, resp)
  \/ reset
  \/ resetApp

Spec == Init /\ [][Next]_vars

\* Every fetch is answered: a run suspended at an await is resumed.
FairSpec == Spec /\ WF_vars(Network)

\* ---- properties ------------------------------------------------------------------
IntakeOps == {"handleFileSelect", "handleDrop"}

Over50MiB(file) == file.size > 52428800
Over20MiB(file) == file.size > 20971520

\* The runs that are in flight, and the one that ended in the last step.
InFlight == { runs[i] : i \in 1..Len(runs) }
RunsSeen == InFlight \cup (IF ended # NoRun THEN {ended} ELSE {})

AllOcrOk(r) ==
  \A j \in 1..Len(r.files) : j <= Len(r.calls) /\ r.calls[j].status = "ok"

\* C1: a run over N >= 1 files issues its fetches in the order OCR of file 1,
\* ..., OCR of file N, analyze; each is issued only after the one before it
\* has returned; when all N OCR calls have succeeded exactly N OCR calls and
\* exactly one analyze call have been issued, and nothing follows analyze.
C1_CallSequence ==
  \A r \in RunsSeen :
    LET N == Len(r.files) IN
    /\ N >= 1
    /\ Len(r.calls) <= N + 1
    /\ \A j \in 1..Len(r.calls) :
         /\ r.calls[j].kind = (IF j <= N THEN "ocr" ELSE "analyze")
         /\ j < Len(r.calls) => r.calls[j].status = "ok"
    /\ AllOcrOk(r) =>
         /\ Len(r.calls) = N + 1
         /\ Len(SelectSeq(r.calls, LAMBDA c : c.kind = "ocr")) = N
         /\ Len(SelectSeq(r.calls, LAMBDA c : c.kind = "analyze")) = 1

C1_Witness ==
  /\ ended # NoRun
  /\ Len(ended.files) = 2
  /\ Len(ended.calls) = 3
  /\ ended.calls[3].status = "ok"

\* C2: when the k-th OCR call of a run returns a non-success HTTP status the
\* run ends there: it has issued exactly k calls, Report is empty and
\* ErrorMessage is not; no run goes on past a failed OCR call.
C2_OcrFailureAborts ==
  /\ \A r \in InFlight :
       \A k \in 1..Len(r.calls) : r.calls[k].status \in {"ok", "pending"}
  /\ ended # NoRun =>
       \A k \in 1..Len(ended.calls) :
         (ended.calls[k].kind = "ocr" /\ ended.calls[k].status = "http")
           => /\ Len(ended.calls) = k
              /\ report = ""
              /\ error # ""

C2_Witness ==
  /\ ended # NoRun
  /\ Len(ended.files) = 2
  /\ Len(ended.calls) = 1
  /\ ended.calls[1].status = "http"
  /\ error # ""

\* C3: a batch with a file over 50 MiB is rejected whole: FileList is left as
\* it was and ErrorMessage names the first oversized file of the batch; no
\* FileList element is ever over 50 MiB.
RECURSIVE FirstOver(_, _)
FirstOver(list, i) ==
  IF i > Len(list) THEN 0
  ELSE IF Over50MiB(list[i]) THEN i
  ELSE FirstOver(list, i + 1)

\* The outcome of the running build's intake handlers on list.
Taken(list) == IF build = Hardened THEN Intake(list) ELSE IntakeApp(list)

C3_OversizedBatchRejected ==
  /\ \A i \in 1..Len(files) : ~Over50MiB(files[i])
  /\ IntakeView =>
       \A list \in Batches :
         LET first == FirstOver(list, 1)
             after == Taken(list)
         IN  first # 0
               => /\ after.files = files
                  /\ after.error = "\"" \o list[first].name \o "\" exceeds the 50MB limit."

\* A batch of a valid 50 MiB file followed by an oversized one has been
\* rejected: the valid file got its warning and is not in FileList.
C3_Witness ==
  /\ lastOp \in IntakeOps
  /\ alerts = << "\"B\" is large and may take up to 3 minutes to process." >>
  /\ error = "\"C\" exceeds the 50MB limit."
  /\ files = << [name |-> "A", size |-> 20971520] >>

\* C4: a trigger whose precondition fails (no endpoint base address where the
\* build requires one, or an empty FileList) sets a precondition message,
\* starts no run, issues no fetch and leaves processing false.
PreconditionFails == (build = Hardened /\ ~API_URL) \/ files = <<>>

C5_CleanupReached ==
  /\ (lastOp = "run" \/ processing) ~> (~processing /\ phase = "")
  /\ [][(~processing /\ processing') => lastOp' = "run"]_vars

C5_Witness ==
  /\ ended # NoRun
  /\ Last(ended.calls).kind = "analyze"
  /\ Last(ended.calls).status = "http"
  /\ ~processing
  /\ phase = ""

\* C6: right after reset FileList, Report and ErrorMessage are empty and the
\* phase label has its initial value.
C6_ResetRestores ==
  lastOp = "reset" => /\ files = <<>>
                      /\ report = ""
                      /\ error = ""
                      /\ phase = ""

C6_Witness ==
  /\ lastOp = "reset"
  /\ files = <<>>
  /\ report = ""

\* C7: Report non-empty implies ErrorMessage empty in every reachable state,
\* and a run that passes its preconditions has cleared ErrorMessage when it
\* issues its first fetch.
C7_ErrorExcludesReport ==
  /\ report # "" => error = ""
  /\ (lastOp = "run" /\ runs # <<>>) => error = ""

\* The alert messages for the 20..50 MiB files of list, in list order.
RECURSIVE BandWarnings(_)
BandWarnings(list) ==
  IF list = <<>> THEN <<>>
  ELSE (IF Over20MiB(Head(list)) /\ ~Over50MiB(Head(list))
        THEN << "\"" \o Head(list).name
                  \o "\" is large and may take up to 3 minutes to process." >>
        ELSE <<>>)
         \o BandWarnings(Tail(list))

\* C8 as stated: every 20..50 MiB file of a batch is appended and gets exactly
\* one warning; no warning for a file that is not appended or is <= 20 MiB.
IntakeStep(list) ==
  \/ handleFileSelect(list)
  \/ handleDrop(list)
  \/ handleFileSelectApp(list)
  \/ handleDropApp(list)

C8_AsStated ==
  [][\A list \in Batches :
       IntakeStep(list)
         => /\ (BandWarnings(list) # <<>>) => files' = files \o list
            /\ files' = files \o list => alerts' = BandWarnings(list)
            /\ files' # files \o list => alerts' = <<>>]_vars

\* C8 amended: a batch without a file over 50 MiB is appended whole, with
\* exactly one warning per 20..50 MiB file and none for smaller files; a batch
\* with a file over 50 MiB is not appended, and exactly the 20..50 MiB files
\* before its first oversized file have had their warning.
C8_WarningsFollowScan ==
  IntakeView =>
    \A list \in Batches :
      LET first == FirstOver(list, 1)
          after == Taken(list)
      IN  IF first = 0
          THEN /\ after.files = files \o list
               /\ after.alerts = BandWarnings(list)
          ELSE /\ after.files = files
               /\ after.alerts = BandWarnings(SubSeq(list, 1, first - 1))

\* A 20 MiB file and a 50 MiB file were taken in together: one warning, for
\* the 50 MiB one.
C8_Witness ==
  /\ lastOp \in IntakeOps
  /\ files = << [name |-> "A", size |-> 20971520], [name |-> "B", size |-> 52428800] >>
  /\ alerts = << "\"B\" is large and may take up to 3 minutes to process." >>

\* C9: at most one run is in flight, and only while processing is true.
C9_SingleRun ==
  /\ Len(runs) <= 1
  /\ runs # <<>> <=> processing
  /\ Cardinality({ r \in InFlight : Last(r.calls).status = "pending" }) <= 1

C9_Witness ==
  /\ Len(runs) = 1
  /\ processing
  /\ lastOp \in IntakeOps
  /\ files # <<>>

\* C10: the files a run sends to OCR and the text it sends to analyze come
\* from the FileList of its trigger, whatever FileList has become since.
RECURSIVE CombinedTexts(_)
CombinedTexts(list) ==
  IF list = <<>> THEN { <<>> }
  ELSE { << Block(Head(list), t) >> \o rest :
           t \in {"foo"}, rest \in CombinedTexts(Tail(list)) }

C10_RunUsesTriggerFiles ==
  \A r \in RunsSeen :
    \A j \in 1..Len(r.calls) :
      IF r.calls[j].kind = "ocr"
      THEN j <= Len(r.files) /\ r.calls[j].file = r.files[j]
      ELSE r.calls[j].text \in { Join(parts) : parts \in CombinedTexts(r.files) }

C10_Witness ==
  /\ ended # NoRun
  /\ report # ""
  /\ files # ended.files
  /\ Len(ended.calls) = Len(ended.files) + 1

====
